---- MODULE Spec2Model ----
(***************************************************************************)
(* Model of src/src/example.py: the I-beam area moment of inertia, its     *)
(* forward-mode sensitivities, the depth sweep (sweep_depths) and the      *)
(* projected gradient ascent (run_gradient_ascent).                        *)
(*                                                                         *)
(* Numbers.  The formula and its derivatives are evaluated in exact        *)
(* rational arithmetic (pairs <<numerator, denominator>> in lowest terms), *)
(* so the model has the real-number semantics of the float64 code without  *)
(* its rounding error.  The optimizer's parameter vector lives on the      *)
(* grid of whole length units: the updated vector x + learning_rate * g is *)
(* rounded to the nearest grid point (Round), the model's counterpart of   *)
(* the float64 rounding of that sum.                                       *)
(***************************************************************************)
EXTENDS Integers, Sequences, FiniteSets, TLC

----------------------------------------------------------------------------
(* Exact rationals *)

Abs(n) == IF n < 0 THEN -n ELSE n

RECURSIVE GCD(_, _)
GCD(a, b) == IF b = 0 THEN a ELSE GCD(b, a % b)

\* n/d in lowest terms with a positive denominator (d # 0).
Rat(n, d) ==
    LET g == GCD(Abs(n), Abs(d))
        s == IF d < 0 THEN -1 ELSE 1
    IN  <<(s * n) \div g, (s * d) \div g>>

RInt(k) == <<k, 1>>

RNeg(a) == <<-a[1], a[2]>>

RAdd(a, b) ==
    LET g == GCD(a[2], b[2])
    IN  Rat(a[1] * (b[2] \div g) + b[1] * (a[2] \div g), (a[2] \div g) * b[2])

RSub(a, b) == RAdd(a, RNeg(b))

\* Cross-reduced before multiplying, so the product stays in lowest terms.
RMul(a, b) ==
    LET g1 == GCD(Abs(a[1]), b[2])
        g2 == GCD(Abs(b[1]), a[2])
    IN  Rat((a[1] \div g1) * (b[1] \div g2), (a[2] \div g2) * (b[2] \div g1))

\* a / b, b # 0
RDiv(a, b) == RMul(a, Rat(b[2], b[1]))

RECURSIVE RPow(_, _)
RPow(a, n) == IF n = 0 THEN RInt(1) ELSE RMul(a, RPow(a, n - 1))

RLess(a, b) == a[1] * b[2] < b[1] * a[2]

\* Nearest whole number, halves upwards: floor(a + 1/2).
Round(a) == (2 * a[1] + a[2]) \div (2 * a[2])

----------------------------------------------------------------------------
(* Forward-mode automatic differentiation (auto_diff): a value with its    *)
(* derivative with respect to each of the four inputs.                     *)

Params == 1..4

Zero4 == [k \in Params |-> RInt(0)]

Unit4(j) == [k \in Params |-> IF k = j THEN RInt(1) ELSE RInt(0)]

\* A plain Python number met by a differentiated operand.
Const(c) == [val |-> RInt(c), der |-> Zero4]

\* with auto_diff.AutoDiff(x) as x: input j is seeded with the unit
\* derivative in its own axis.
AutoDiff(x) == [j \in Params |-> [val |-> RInt(x[j]), der |-> Unit4(j)]]

DSub(a, b) ==
    [val |-> RSub(a.val, b.val),
     der |-> [k \in Params |-> RSub(a.der[k], b.der[k])]]

DAdd(a, b) ==
    [val |-> RAdd(a.val, b.val),
     der |-> [k \in Params |-> RAdd(a.der[k], b.der[k])]]

DMul(a, b) ==
    [val |-> RMul(a.val, b.val),
     der |-> [k \in Params |->
                RAdd(RMul(a.der[k], b.val), RMul(a.val, b.der[k]))]]

DDiv(a, b) ==
    [val |-> RDiv(a.val, b.val),
     der |-> [k \in Params |->
                RDiv(RSub(RMul(a.der[k], b.val), RMul(a.val, b.der[k])),
                     RMul(b.val, b.val))]]

PowNoFactor(a, n) ==
    [val |-> RPow(a.val, n),
     der |-> [k \in Params |-> RMul(RPow(a.val, n - 1), a.der[k])]]

\* a ** n for a whole exponent n >= 1: the power rule.
DPow(a, n) ==
    [val |-> RPow(a.val, n),
     der |-> [k \in Params |->
                RMul(RMul(RInt(n), RPow(a.val, n - 1)), a.der[k])]]

----------------------------------------------------------------------------
(* The formula and its wrappers *)

MoiFlangeSubtracted(depth, width, t_web, t_flange) ==
    LET depth_web == DSub(depth, DMul(Const(2), t_flange))
    IN  DSub(DDiv(DMul(t_web, DPow(depth_web, 3)), Const(12)),
             DMul(DDiv(width, Const(12)),
                  DSub(DPow(depth, 3), DPow(depth_web, 3))))

compute_area_moment_of_inertia(depth, width, t_web, t_flange) ==
    LET depth_web == DSub(depth, DMul(Const(2), t_flange))
    IN  DAdd(DDiv(DMul(t_web, DPow(depth_web, 3)), Const(12)),
             DMul(DDiv(width, Const(12)),
                  DSub(DPow(depth, 3), DPow(depth_web, 3))))

compute_area_moment_of_inertia_ad(x) ==
    compute_area_moment_of_inertia(x[1], x[2], x[3], x[4])

\* Returns (moi, sensitivities): the value and the four partials in the
\* order of the inputs.
compute_area_moment_of_inertia_sensitivities(depth, width, t_web, t_flange) ==
    LET moi_x == compute_area_moment_of_inertia_ad(
                     AutoDiff(<<depth, width, t_web, t_flange>>))
    IN  <<moi_x.val, [k \in Params |-> moi_x.der[k]]>>

----------------------------------------------------------------------------
(* Program constants of run_gradient_ascent *)

DEPTH_INIT == 100
WIDTH_INIT == 50
T_WEB == 5
T_FLANGE == 5

DEPTH_MIN == 100
DEPTH_MAX == 200
WIDTH_MIN == 50
WIDTH_MAX == 100

\* learning_rate = 0.0001 = 1 / LearningRateDen
LearningRateDen == 10000
n_max_iterations == 100

\* numpy.allclose(a, b): |a - b| <= atol + rtol * |b| with the defaults
\* atol = 1e-08 = 1 / AtolDen and rtol = 1e-05 = 1 / RtolDen.
AtolDen == 100000000
RtolDen == 100000

----------------------------------------------------------------------------
(* Bounds of the model *)

\* Iteration caps 1..MaxIter are explored beside n_max_iterations.
MaxIter == 3
\* Initial values are spread over Spread + 3 points, Stride apart for the
\* depth and half of it for the width, from below the minimum to above the
\* maximum.
Spread == 2
Stride == 50
\* Sweeps: depth sequences of at most MaxLen depths in 0..MaxDepth, widths
\* 1..MaxWidth and thicknesses 1..MaxThick, beside the shipped ones.
MaxLen == 2
MaxDepth == 3
MaxWidth == 2
MaxThick == 2

----------------------------------------------------------------------------
VARIABLES
    cfg,                \* run_gradient_ascent: the initial vector, the bounds
                        \* and the iteration cap it was started with
    x,                  \* the parameter vector x
    xad,                \* xad.val, the vector of the last AutoDiff context
    i,                  \* the next value of the loop index
    out_iteration, out_depth, out_width, out_moi,
    sweep,              \* sweep_depths: depths, width, t_web, t_flange
    n,                  \* position of the loop in depths
    moi_out, sensitivities_out,
    df,                 \* the DataFrame handed to to_csv
    pc

vars == <<cfg, x, xad, i, out_iteration, out_depth, out_width, out_moi,
          sweep, n, moi_out, sensitivities_out, df, pc>>

NoFrame == [written |-> FALSE]

----------------------------------------------------------------------------
(* run_gradient_ascent *)

Config(depth0, width0, tw, tf, dbounds, wbounds, cap) ==
    [x      |-> <<depth0, width0, tw, tf>>,
     bounds |-> <<dbounds, wbounds, <<tw, tw>>, <<tf, tf>>>>,
     n_max  |-> cap]

Shipped ==
    Config(DEPTH_INIT, WIDTH_INIT, T_WEB, T_FLANGE,
           <<DEPTH_MIN, DEPTH_MAX>>, <<WIDTH_MIN, WIDTH_MAX>>, n_max_iterations)

DepthInits == {DEPTH_MIN + Stride * j : j \in -1..(Spread + 1)}
WidthInits == {WIDTH_MIN + (Stride \div 2) * j : j \in -1..(Spread + 1)}
DepthBounds == {<<DEPTH_MIN, DEPTH_MAX>>,
                <<DEPTH_MIN + Stride, DEPTH_MIN + Stride>>}
WidthBounds == {<<WIDTH_MIN, WIDTH_MAX>>,
                <<WIDTH_MIN + (Stride \div 2), WIDTH_MIN + (Stride \div 2)>>}
Caps == (1..MaxIter) \cup {n_max_iterations}

\* A very wide section of fixed depth: the width is of the magnitude at
\* which one length unit is within rtol of it.
Wide == Config(50, RtolDen, 3, 15, <<50, 50>>, <<1, 2 * RtolDen>>,
               n_max_iterations)

Configs ==
    {Config(d0, w0, T_WEB, T_FLANGE, db, wb, cap) :
        d0 \in DepthInits, w0 \in WidthInits,
        db \in DepthBounds, wb \in WidthBounds, cap \in Caps}
    \cup {Shipped, Wide}

StepDescent(v, sensitivities) ==
    [k \in Params |->
        Round(RSub(RInt(v[k]), RDiv(sensitivities[k], RInt(LearningRateDen))))]

\* x = np.array(xad.val) + learning_rate * np.array(sensitivities)
GradientStep(v, sensitivities) ==
    [k \in Params |->
        Round(RAdd(RInt(v[k]), RDiv(sensitivities[k], RInt(LearningRateDen))))]

Min(a, b) == IF a < b THEN a ELSE b
Max(a, b) == IF a > b THEN a ELSE b

ClipLowerOnly(v, bounds) == [k \in Params |-> Max(v[k], bounds[k][1])]

\* np.clip(x, bounds[:, 0], bounds[:, 1]) = minimum(maximum(x, min), max)
Clip(v, bounds) ==
    [k \in Params |-> Min(Max(v[k], bounds[k][1]), bounds[k][2])]

AllCloseNever(a, b) == FALSE

AllCloseAbsolute(a, b) ==
    \A k \in Params : Abs(a[k] - b[k]) <= 1 \div AtolDen

\* np.allclose(a, b): every |a - b| <= atol + rtol * |b|.  The components
\* are whole numbers, so the bound may be floored.
AllClose(a, b) ==
    \A k \in Params :
        Abs(a[k] - b[k]) <= (1 + Abs(b[k]) * (AtolDen \div RtolDen)) \div AtolDen

RecordedWidthFromDepth(v) == v[1]

\* depth = xad.val[0][0]
RecordedDepth(v) == v[1]
\* width = xad.val[1][0]
RecordedWidth(v) == v[2]

InitAscent ==
    /\ cfg \in Configs
    /\ x = cfg.x
    /\ xad = cfg.x
    /\ i = 0
    /\ out_iteration = <<>>
    /\ out_depth = <<>>
    /\ out_width = <<>>
    /\ out_moi = <<>>
    /\ sweep = [depths |-> <<>>, width |-> 0, t_web |-> 0, t_flange |-> 0]
    /\ n = 1
    /\ moi_out = <<>>
    /\ sensitivities_out = <<>>
    /\ df = NoFrame
    /\ pc = "loop"

\* One pass of the loop body, lines 119-142.
Iterate ==
    /\ pc = "loop"
    /\ i < cfg.n_max
    /\ LET moi_x == compute_area_moment_of_inertia_ad(AutoDiff(x))
           moi == moi_x.val
           sensitivities == moi_x.der
           stepped == GradientStep(x, sensitivities)
           clipped == Clip(stepped, cfg.bounds)
       IN  /\ out_iteration' = Append(out_iteration, i)
           /\ out_depth' = Append(out_depth, RecordedDepth(x))
           /\ out_width' = Append(out_width, RecordedWidth(x))
           /\ out_moi' = Append(out_moi, moi)
           /\ xad' = x
           /\ x' = clipped
           /\ IF AllClose(clipped, x)
                THEN /\ pc' = "break"
                     /\ i' = i
                ELSE /\ pc' = IF i + 1 < cfg.n_max THEN "loop" ELSE "exhausted"
                     /\ i' = i + 1
    /\ UNCHANGED <<cfg, sweep, n, moi_out, sensitivities_out, df>>

\* Lines 144-153: the table of the recorded iterations, handed to to_csv.
Export ==
    /\ pc \in {"break", "exhausted"}
    /\ df' = [written   |-> TRUE,
              iteration |-> out_iteration,
              depth     |-> out_depth,
              width     |-> out_width,
              moi       |-> out_moi]
    /\ pc' = "done"
    /\ UNCHANGED <<cfg, x, xad, i, out_iteration, out_depth, out_width,
                   out_moi, sweep, n, moi_out, sensitivities_out>>

Next == Iterate \/ Export

Spec == InitAscent /\ [][Next]_vars

----------------------------------------------------------------------------
(* sweep_depths *)

\* np.arange(100, 201, 10)
ShippedDepths == [j \in 1..11 |-> 100 + 10 * (j - 1)]

ShippedSweep ==
    [depths |-> ShippedDepths, width |-> 40, t_web |-> 5, t_flange |-> 5]

Sweeps ==
    [depths   : UNION {[1..len -> 0..MaxDepth] : len \in 0..MaxLen}
                    \cup {ShippedDepths},
     width    : (1..MaxWidth) \cup {40},
     t_web    : (1..MaxThick) \cup {5},
     t_flange : (1..MaxThick) \cup {5}]

InitSweep ==
    /\ sweep \in Sweeps
    /\ n = 1
    /\ moi_out = <<>>
    /\ sensitivities_out = <<>>
    /\ df = NoFrame
    /\ pc = "loop"
    /\ cfg = Shipped
    /\ x = Shipped.x
    /\ xad = Shipped.x
    /\ i = 0
    /\ out_iteration = <<>>
    /\ out_depth = <<>>
    /\ out_width = <<>>
    /\ out_moi = <<>>

\* One pass of the loop body, lines 168-173.
SweepStep ==
    /\ pc = "loop"
    /\ n <= Len(sweep.depths)
    /\ LET depth == sweep.depths[n]
           result == compute_area_moment_of_inertia_sensitivities(
                         depth, sweep.width, sweep.t_web, sweep.t_flange)
           moi == result[1]
           sensitivities == result[2]
       IN  /\ moi_out' = Append(moi_out, moi)
           /\ sensitivities_out' = Append(sensitivities_out, sensitivities)
    /\ n' = n + 1
    /\ UNCHANGED <<cfg, x, xad, i, out_iteration, out_depth, out_width,
                   out_moi, sweep, df, pc>>

SweepFrameShifted(depths, mois, sens) ==
    [written       |-> TRUE,
     depth         |-> depths,
     i_xx          |-> mois,
     sens_depth    |-> [j \in 1..Len(sens) |-> sens[j][2]],
     sens_width    |-> [j \in 1..Len(sens) |-> sens[j][3]],
     sens_t_web    |-> [j \in 1..Len(sens) |-> sens[j][4]],
     sens_t_flange |-> [j \in 1..Len(sens) |-> sens[j][1]]]

\* pd.DataFrame({...}), lines 175-184
SweepFrame(depths, mois, sens) ==
    [written       |-> TRUE,
     depth         |-> depths,
     i_xx          |-> mois,
     sens_depth    |-> [j \in 1..Len(sens) |-> sens[j][1]],
     sens_width    |-> [j \in 1..Len(sens) |-> sens[j][2]],
     sens_t_web    |-> [j \in 1..Len(sens) |-> sens[j][3]],
     sens_t_flange |-> [j \in 1..Len(sens) |-> sens[j][4]]]

\* The loop has run through depths: the table is built and written.
SweepExport ==
    /\ pc = "loop"
    /\ n > Len(sweep.depths)
    /\ df' = SweepFrame(sweep.depths, moi_out, sensitivities_out)
    /\ pc' = "done"
    /\ UNCHANGED <<cfg, x, xad, i, out_iteration, out_depth, out_width,
                   out_moi, sweep, n, moi_out, sensitivities_out>>

SweepNext == SweepStep \/ SweepExport

SweepSpec == InitSweep /\ [][SweepNext]_vars

----------------------------------------------------------------------------
(* The closed form of the formula and of its partial derivatives, written  *)
(* out by hand: what the claims compare the program's results with.        *)

\* 12 * I = tw * dw^3 + w * (d^3 - dw^3), dw = d - 2 tf
Analytic12Moi(d, w, tw, tf) ==
    LET dw == d - 2 * tf
    IN  tw * dw * dw * dw + w * (d * d * d - dw * dw * dw)

AnalyticMoi(d, w, tw, tf) == Rat(Analytic12Moi(d, w, tw, tf), 12)

AnalyticPartials(d, w, tw, tf) ==
    LET dw == d - 2 * tf
    IN  <<Rat(tw * dw * dw + w * (d * d - dw * dw), 4),
          Rat(d * d * d - dw * dw * dw, 12),
          Rat(dw * dw * dw, 12),
          Rat((w - tw) * dw * dw, 2)>>

----------------------------------------------------------------------------
(* Claims about compute_area_moment_of_inertia_sensitivities and           *)
(* sweep_depths, checked under SweepSpec.                                  *)

\* C1: for every input (depth, width, t_web, t_flange) the sweep has
\* evaluated, compute_area_moment_of_inertia_sensitivities returned the
\* closed-form value I and exactly four partials, equal to the analytic
\* partials in the order depth, width, t_web, t_flange.
C1_SensitivitiesAreAnalyticPartials ==
    \A j \in 1..Len(moi_out) :
        LET d == sweep.depths[j]
        IN  /\ moi_out[j] =
                 AnalyticMoi(d, sweep.width, sweep.t_web, sweep.t_flange)
            /\ DOMAIN sensitivities_out[j] = 1..4
            /\ \A k \in 1..4 :
                 sensitivities_out[j][k] =
                   AnalyticPartials(d, sweep.width, sweep.t_web,
                                    sweep.t_flange)[k]

\* An evaluation whose four partials are all non-zero and pairwise distinct.
C1_Witness ==
    \E j \in 1..Len(sensitivities_out) :
        /\ \A k \in 1..4 : sensitivities_out[j][k][1] # 0
        /\ \A k, l \in 1..4 :
             k # l => sensitivities_out[j][k] # sensitivities_out[j][l]
        /\ sweep # ShippedSweep

\* C5: over the shipped sweep (width 40, t_web 5, t_flange 5, depths 100,
\* 110, ..., 200) the moment of inertia strictly increases from each sampled
\* depth to the next and the sensitivity to depth is strictly positive at
\* every sampled depth.
C5_ShippedSweepMonotone ==
    sweep = ShippedSweep =>
        \A j \in 1..Len(moi_out) :
            /\ RLess(RInt(0), sensitivities_out[j][1])
            /\ j > 1 => RLess(moi_out[j - 1], moi_out[j])

\* The shipped sweep has sampled all eleven depths.
C5_Witness ==
    /\ sweep = ShippedSweep
    /\ Len(moi_out) = Len(ShippedDepths)
    /\ pc = "loop"

\* C6: the table of sweep_depths has one row per input depth in the order of
\* the input; row j holds depth j, the moment of inertia at depth j alone and
\* the partials with respect to depth, width, t_web, t_flange in the columns
\* sens_depth, sens_width, sens_t_web, sens_t_flange.
C6_SweepRowsAligned ==
    pc = "done" =>
        /\ df.written
        /\ \A c \in {"depth", "i_xx", "sens_depth", "sens_width",
                     "sens_t_web", "sens_t_flange"} :
             DOMAIN df[c] = 1..Len(sweep.depths)
        /\ \A j \in 1..Len(sweep.depths) :
             LET d == sweep.depths[j]
                 g == AnalyticPartials(d, sweep.width, sweep.t_web,
                                       sweep.t_flange)
             IN  /\ df.depth[j] = d
                 /\ df.i_xx[j] =
                      AnalyticMoi(d, sweep.width, sweep.t_web, sweep.t_flange)
                 /\ df.sens_depth[j] = g[1]
                 /\ df.sens_width[j] = g[2]
                 /\ df.sens_t_web[j] = g[3]
                 /\ df.sens_t_flange[j] = g[4]

\* A written table of two rows whose depths are out of order.
C6_Witness ==
    /\ pc = "done"
    /\ Len(sweep.depths) = 2
    /\ sweep.depths[1] > sweep.depths[2]
    /\ sweep.width # sweep.t_web

----------------------------------------------------------------------------
(* Claims about run_gradient_ascent, checked under Spec.                   *)

\* Number of recorded iterations.
Recorded == Len(out_iteration)

\* The parameter vector of record j: the recorded depth and width with the
\* two thicknesses, whose bounds pin them to their initial values.
RecordVector(j) == <<out_depth[j], out_width[j], cfg.x[3], cfg.x[4]>>

Within(v, bound) == bound[1] <= v /\ v <= bound[2]

\* C2: started with an initial depth above DEPTH_MAX, the depth is clamped
\* to DEPTH_MAX by the first step and no recorded iteration, the first
\* included, holds a depth or width outside its bounds.
C2_NoRecordOutsideBounds ==
    cfg.x[1] > cfg.bounds[1][2] =>
        /\ Recorded >= 1 => x[1] = cfg.bounds[1][2]
        /\ \A j \in 1..Recorded :
             /\ Within(out_depth[j], cfg.bounds[1])
             /\ Within(out_width[j], cfg.bounds[2])

\* C3: with the shipped configuration the loop never runs out of
\* iterations: it stops through the convergence check after fewer than
\* n_max_iterations iterations, with the last recorded depth at DEPTH_MAX.
C3_ShippedConverges ==
    cfg = Shipped =>
        /\ pc # "exhausted"
        /\ pc \in {"break", "done"} =>
             /\ Recorded < n_max_iterations
             /\ out_depth[Recorded] = DEPTH_MAX

\* The shipped run has left the loop through the convergence check.
C3_Witness == cfg = Shipped /\ pc = "break" /\ Recorded > 1

\* C4: a parameter whose bounds are [v, v] has the value v in the vector of
\* every recorded iteration.
C4_FixedParameterRecordedAtBound ==
    \A j \in 1..Recorded :
        \A k \in Params :
            cfg.bounds[k][1] = cfg.bounds[k][2] =>
                RecordVector(j)[k] = cfg.bounds[k][1]

\* C7 as stated: after an iteration the loop has stopped as converged
\* exactly when every component of the projected vector is within the fixed
\* absolute tolerance atol of the pre-step component, whatever its
\* magnitude (atol is below one length unit: the components are equal).
C7_StopsIffWithinAbsoluteTolerance ==
    (Recorded >= 1 /\ pc # "done") =>
        (pc = "break" <=>
            \A k \in Params : Abs(x[k] - xad[k]) <= 1 \div AtolDen)

\* C7, amended: after an iteration the loop has stopped as converged exactly
\* when every component of the projected vector is within
\* atol + rtol * |pre-step component| of the pre-step component, a tolerance
\* that grows with the magnitude of the value (for whole numbers d and b,
\* d <= 1/AtolDen + b/RtolDen is RtolDen * d <= b); in either case the
\* projected vector is the current vector x.
C7_StopsIffWithinRelativeTolerance ==
    (Recorded >= 1 /\ pc # "done") =>
        /\ pc = "break" <=>
             \A k \in Params : RtolDen * Abs(x[k] - xad[k]) <= Abs(xad[k])
        /\ LET g == compute_area_moment_of_inertia_sensitivities(
                        xad[1], xad[2], xad[3], xad[4])[2]
           IN  \A k \in Params :
                 x[k] = Min(Max(Round(RAdd(RInt(xad[k]),
                                           RDiv(g[k], RInt(LearningRateDen)))),
                                cfg.bounds[k][1]),
                            cfg.bounds[k][2])

\* The loop has stopped as converged on a step that moved a parameter.
C7_Witness == pc = "break" /\ x # xad

\* C8, the log in every state: one record per executed iteration, at most
\* n_max of them, indexed 0, 1, ... in order; record j holds the depth and
\* width before the step of its iteration and the moment of inertia there:
\* the first holds the initial vector, each later one the clamped result of
\* the step before it.
LogShape ==
    /\ Len(out_depth) = Recorded
    /\ Len(out_width) = Recorded
    /\ Len(out_moi) = Recorded
    /\ Recorded <= cfg.n_max
    /\ pc = "loop" => Recorded = i /\ i < cfg.n_max
    /\ pc = "break" => Recorded = i + 1
    /\ pc = "exhausted" => Recorded = i /\ i = cfg.n_max
    /\ pc # "loop" => Recorded >= 1
    /\ \A j \in 1..Recorded :
         /\ out_iteration[j] = j - 1
         /\ out_moi[j] = compute_area_moment_of_inertia_sensitivities(
                              out_depth[j], out_width[j], cfg.x[3], cfg.x[4])[1]
         /\ j = 1 => out_depth[j] = cfg.x[1] /\ out_width[j] = cfg.x[2]
         /\ j > 1 =>
              LET v == RecordVector(j - 1)
                  g == compute_area_moment_of_inertia_sensitivities(
                           v[1], v[2], v[3], v[4])[2]
                  step(k) == Round(RAdd(RInt(v[k]),
                                        RDiv(g[k], RInt(LearningRateDen))))
              IN  /\ out_depth[j] =
                       Min(Max(step(1), cfg.bounds[1][1]), cfg.bounds[1][2])
                  /\ out_width[j] =
                       Min(Max(step(2), cfg.bounds[2][1]), cfg.bounds[2][2])

\* C8, from each state to the next: the log only grows at its end.
LogAppendOnly ==
    /\ Len(out_iteration') >= Recorded
    /\ \A j \in 1..Recorded :
         /\ out_iteration'[j] = out_iteration[j]
         /\ out_depth'[j] = out_depth[j]
         /\ out_width'[j] = out_width[j]
         /\ out_moi'[j] = out_moi[j]

AtBoundPushedOutward(j, k) ==
    LET v == RecordVector(j)
        g == compute_area_moment_of_inertia_sensitivities(
                 v[1], v[2], v[3], v[4])[2][k]
    IN  /\ cfg.bounds[k][1] < cfg.bounds[k][2]
        /\ \/ v[k] = cfg.bounds[k][2] /\ g[1] > 0
           \/ v[k] = cfg.bounds[k][1] /\ g[1] < 0

\* The run was started inside its bounds.
StartedWithinBounds == \A k \in Params : Within(cfg.x[k], cfg.bounds[k])

C10_ShippedRunAscends ==
    cfg = Shipped =>
        \A j \in 1..Recorded :
            LET v == RecordVector(j)
            IN  /\ v[1] > 2 * v[4]
                /\ \A k \in Params : v[k] > 0
                /\ j > 1 =>
                     /\ out_depth[j - 1] <= out_depth[j]
                     /\ out_width[j - 1] <= out_width[j]
                     /\ \/ out_depth[j - 1] < out_depth[j]
                        \/ out_width[j - 1] < out_width[j]
                     /\ RLess(out_moi[j - 1], out_moi[j])

\* The shipped run is over, with the width at its maximum before the depth.
C10_Witness ==
    /\ cfg = Shipped
    /\ pc = "done"
    /\ \E j \in 2..Recorded :
         out_width[j - 1] = WIDTH_MAX /\ out_depth[j - 1] < DEPTH_MAX

====
